---- MODULE Spec2Model ----
(***************************************************************************)
(* A model of the either_option package (Python 2): the Option family      *)
(* (Some / Nothing) and the Either family (Right / Wrong), the methods     *)
(* that the class decorators _make_right and _make_left attach to them,    *)
(* and the factory class methods.  A client builds a value and applies a   *)
(* chain of operations to it; every operation is one action.               *)
(***************************************************************************)
EXTENDS Integers, Sequences, FiniteSets, TLC

\* Longest chain of operations applied to one starting value.
MaxSteps == 2
\* Largest number of extra positional arguments passed to a chaining call.
MaxExtra == 1
\* Longest input sequence handed to first and sequence.
MaxSeq == 2

(***************************************************************************)
(* Python values.  Every value is a record of the same shape:              *)
(*   tag   - the class of the object                                       *)
(*   n     - the number of an int or a bool, the length of a str 'a'*n     *)
(*   items - the elements of a list; the payload slot of a container       *)
(*   id    - the identity of an object built at run time (0 for the        *)
(*           interned immutables and for the module-level singleton).      *)
(* Two records are the same Python object ("is") iff they are equal.       *)
(***************************************************************************)
Obj(tag, n, items, id) == [tag |-> tag, n |-> n, items |-> items, id |-> id]

PyNone == Obj("None", 0, <<>>, 0)
PyInt(k) == Obj("int", k, <<>>, 0)
PyBool(b) == Obj("bool", IF b THEN 1 ELSE 0, <<>>, 0)
PyStr(k) == Obj("str", k, <<>>, 0)
PyList(items, id) == Obj("list", 0, items, id)
PyTuple(items) == Obj("tuple", 0, items, 0)
\* An exception class, and an instance of it raised with one argument.
PyClass(name) == Obj("type", 0, <<Obj(name, 0, <<>>, 0)>>, 0)
ClassName(c) == c.items[1].tag
PyExc(kind, arg) == Obj(kind, 0, <<arg>>, 0)
\* issubclass(kind, base): IOError and ValueError derive from Exception.
IsSubclass(kind, base) == kind = base \/ base = "Exception"

\* An input that can be traversed once: it yields items in order and then
\* stops, except that pull number fails, if any (0: none), raises.
PyIter(items, fails) == Obj("iter", fails, items, 0)

\* Option.Nothing = Nothing(): the one instance, __slots__ = ().
Nothing == Obj("Nothing", 0, <<>>, 0)
\* Some.__init__, Right.__init__, Wrong.__init__: self.__payload = value.
Some(value, id) == Obj("Some", 0, <<value>>, id)
Right(value, id) == Obj("Right", 0, <<value>>, id)
Wrong(value, id) == Obj("Wrong", 0, <<value>>, id)

IsRightish(v) == v.tag \in {"Some", "Right"}
IsLeftish(v) == v.tag \in {"Nothing", "Wrong"}
IsContainer(v) == IsRightish(v) \/ IsLeftish(v)
\* The private slot _X__payload, read by the value / error properties.
Payload(v) == v.items[1]

(***************************************************************************)
(* The outcome of a call: it returns val or raises exc(val); calls lists   *)
(* the invocations of client functions it made, used counts the objects    *)
(* it built, pulls the elements it asked its input for.                    *)
(***************************************************************************)
Ret(val, calls, used) ==
    [kind |-> "ret", val |-> val, exc |-> "", calls |-> calls, used |-> used,
     pulls |-> 0]
Raise(exc, val, calls, used) ==
    [kind |-> "raise", val |-> val, exc |-> exc, calls |-> calls, used |-> used,
     pulls |-> 0]
Pulled(out, k) == [out EXCEPT !.pulls = k]
Call(f, args, kwargs) == [f |-> f, args |-> args, kwargs |-> kwargs]

(***************************************************************************)
(* Builtins of the interpreter that the package relies on.                 *)
(***************************************************************************)
RECURSIVE py_len(_)
\* _make_right.__len__: return len(self.value).
Right_len(self) == py_len(Payload(self))

\* len(v): -1 stands for TypeError (the type has no __len__, or the
\* __len__ it has raised one).
py_len(v) ==
    CASE v.tag = "str" -> v.n
      [] v.tag = "list" -> Len(v.items)
      [] IsRightish(v) -> Right_len(v)
      [] OTHER -> -1

\* bool(v), Python 2: __nonzero__, else __len__ () != 0, else True.
\* "T", "F", or "TypeError" when __len__ raises.
py_bool(v) ==
    CASE v.tag = "None" -> "F"
      [] v.tag \in {"int", "bool"} -> IF v.n = 0 THEN "F" ELSE "T"
      [] v.tag \in {"str", "list"} -> IF py_len(v) = 0 THEN "F" ELSE "T"
      [] IsRightish(v) ->
            IF Right_len(v) < 0 THEN "TypeError"
            ELSE IF Right_len(v) = 0 THEN "F" ELSE "T"
      [] OTHER -> "T"

(***************************************************************************)
(* Client functions handed to the chaining calls.  All accept any number   *)
(* of positional and keyword arguments.                                    *)
(***************************************************************************)
\* a == b and a != b.  Some and Right get __eq__ from _make_right and Wrong
\* defines its own; none of the classes defines __ne__, and Python 2 does
\* not derive it from __eq__.
RECURSIVE py_eq(_, _)
\* __eq__: self.__class__ is other.__class__ and self.value == other.value.
Right_eq(self, other) ==
    self.tag = other.tag /\ py_eq(Payload(self), Payload(other))
\* __eq__: self.__class__ is other.__class__ and self.error == other.error.
Wrong_eq(self, other) ==
    self.tag = other.tag /\ py_eq(Payload(self), Payload(other))

\* The interpreter asks the left operand's __eq__, then the right one's,
\* and falls back on identity; numbers compare by value, strings and lists
\* by content.
py_eq(a, b) ==
    CASE IsRightish(a) -> Right_eq(a, b)
      [] a.tag = "Wrong" -> Wrong_eq(a, b)
      [] IsRightish(b) -> Right_eq(b, a)
      [] b.tag = "Wrong" -> Wrong_eq(b, a)
      [] a.tag \in {"int", "bool"} /\ b.tag \in {"int", "bool"} -> a.n = b.n
      [] a.tag = "str" /\ b.tag = "str" -> a.n = b.n
      [] a.tag \in {"list", "tuple"} /\ b.tag = a.tag ->
            /\ Len(a.items) = Len(b.items)
            /\ \A i \in 1..Len(a.items) :
                    a.items[i] = b.items[i] \/ py_eq(a.items[i], b.items[i])
      [] OTHER -> a = b

\* Without __ne__ on either side the containers compare by identity.
py_ne(a, b) ==
    IF IsContainer(a) \/ IsContainer(b) THEN a # b ELSE ~py_eq(a, b)

Funcs == {"boom", "first_arg", "last_arg", "count_args"}
\* Strings that are not callable: bind takes them for method names.
MethodNames == {"__len__"}

FuncResult(f, args, kwargs) ==
    CASE f = "boom" -> Raise("Exception", args[1], <<>>, 0)
      [] f = "io_boom" -> Raise("IOError", args[1], <<>>, 0)
      [] f = "first_arg" -> Ret(args[1], <<>>, 0)
      [] f = "last_arg" -> Ret(args[Len(args)], <<>>, 0)
      [] OTHER -> Ret(PyInt(Len(args) + Len(kwargs)), <<>>, 0)

\* func(*args, **kwargs): the invocation is logged with what it received.
Invoke(f, args, kwargs) ==
    LET r == FuncResult(f, args, kwargs)
    IN  [r EXCEPT !.calls = <<Call(f, args, kwargs)>>]

\* getattr(value.__class__, name)(value, *args, **kwargs).  Among the payload
\* classes only str, list, Some and Right define __len__, which takes no
\* argument but self; the lookup of a missing name fails.
MethodCall(name, args, kwargs) ==
    IF name # "__len__" \/ args[1].tag \notin {"str", "list", "Some", "Right"}
    THEN Raise("AttributeError", PyNone, <<>>, 0)
    ELSE IF Len(args) + Len(kwargs) > 1 \/ py_len(args[1]) < 0
    THEN Raise("TypeError", PyNone, <<>>, 0)
    ELSE Ret(PyInt(py_len(args[1])), <<>>, 0)

(***************************************************************************)
(* Methods attached by _make_right (to Some and Right).  nid is the        *)
(* identity the next object built will get.                                *)
(***************************************************************************)
\* Some.value, Right.value: return self.__payload.
Right_value(self) == Ret(Payload(self), <<>>, 0)

\* error: raise AttributeError('No .error in %r' % self).
Right_error(self) == Raise("AttributeError", PyNone, <<>>, 0)

\* A variant of bind that hands the payload over last, as rbind does.
Right_bind_payload_last(self, func_or_name, args, kwargs) ==
    IF func_or_name \notin Funcs
    THEN MethodCall(func_or_name, <<Payload(self)>> \o args, kwargs)
    ELSE Invoke(func_or_name, args \o <<Payload(self)>>, kwargs)

\* bind: a callable is called with the payload first, then the extra
\* arguments; anything else is taken for a method name of the payload.
Right_bind(self, func_or_name, args, kwargs) ==
    IF func_or_name \notin Funcs
    THEN MethodCall(func_or_name, <<Payload(self)>> \o args, kwargs)
    ELSE Invoke(func_or_name, <<Payload(self)>> \o args, kwargs)

\* rbind: the payload goes last.
Right_rbind(self, func, args, kwargs) ==
    Invoke(func, args \o <<Payload(self)>>, kwargs)

\* and_then: self.__class__(self.bind(func, *args, **kwargs)).
Right_and_then(self, func, args, kwargs, nid) ==
    LET r == Right_bind(self, func, args, kwargs)
    IN  IF r.kind = "raise" THEN r
        ELSE Ret(Obj(self.tag, 0, <<r.val>>, nid), r.calls, 1)

\* value_or: return self.value.
Right_value_or(self, other_value) == Ret(Payload(self), <<>>, 0)

(***************************************************************************)
(* Methods attached by _make_left (to Nothing and Wrong).                  *)
(***************************************************************************)
\* A variant of value_or that looks for the value the variant lacks.
Left_value_or_raises(self, other_value) == Raise("ValueError", PyNone, <<>>, 0)

\* value_or: return other_value.
Left_value_or(self, other_value) == Ret(other_value, <<>>, 0)

(***************************************************************************)
(* Methods of Either.Right and Either.Wrong.                               *)
(***************************************************************************)
\* A variant of Right.or_else that goes through the function all the same.
Right_or_else_calls(self, func, args, kwargs) ==
    Invoke(func, <<Payload(self)>> \o args, kwargs)

Right_or_else(self, func, args, kwargs) == Ret(self, <<>>, 0)

\* A variant of Right.inverse that forgets the payload.
Right_inverse_drops_payload(self, nid) == Ret(Wrong(PyNone, nid), <<>>, 1)

\* inverse: return Either.Wrong(self.value).
Right_inverse(self, nid) == Ret(Wrong(Payload(self), nid), <<>>, 1)

\* A variant of Wrong.value that answers with a sentinel.
Wrong_value_sentinel(self) == Ret(PyNone, <<>>, 0)

\* value: raise ValueError('No .value in %r' % self).
Wrong_value(self) == Raise("ValueError", PyNone, <<>>, 0)

Wrong_error(self) == Ret(Payload(self), <<>>, 0)

\* A variant of Wrong.and_then that proceeds as a contentful value would.
Wrong_and_then_proceeds(self, func, args, kwargs) ==
    Invoke(func, <<Payload(self)>> \o args, kwargs)

\* and_then, and __and__ = bind = __rshift__ = and_then.
Wrong_and_then(self, func, args, kwargs) == Ret(self, <<>>, 0)

Wrong_inverse(self, nid) == Ret(Right(Payload(self), nid), <<>>, 1)

\* A variant of Wrong.or_else that maps the error and stays Wrong.
Wrong_or_else_maps_error(self, func, args, kwargs, nid) ==
    LET r == Invoke(func, <<Payload(self)>> \o args, kwargs)
    IN  IF r.kind = "raise" THEN r ELSE Ret(Wrong(r.val, nid), r.calls, 1)

\* or_else: self.inverse().and_then(func, *args, **kwargs).
Wrong_or_else(self, func, args, kwargs, nid) ==
    LET inv == Wrong_inverse(self, nid)
        r == Right_and_then(inv.val, func, args, kwargs, nid + inv.used)
    IN  [r EXCEPT !.used = r.used + inv.used]

(***************************************************************************)
(* Attribute lookup: the names each class ends up with once its body and   *)
(* its decorator have run.  The assignments of and_then, bind and the      *)
(* operators in _make_left are commented out, so Nothing has none of       *)
(* them, and neither Nothing nor Wrong has __len__.                        *)
(***************************************************************************)
RightAttrs == {"value", "error", "bind", "rbind", "and_then", "__rshift__",
               "__and__", "value_or", "has_value", "__len__", "__eq__",
               "__iter__", "__repr__"}
LeftAttrs == {"value_or", "has_value", "__iter__"}
Attrs(tag) ==
    CASE tag = "Some" -> RightAttrs
      [] tag = "Right" -> RightAttrs \cup {"or_else", "__or__", "inverse"}
      [] tag = "Wrong" -> LeftAttrs \cup {"value", "error", "and_then", "bind",
                            "__rshift__", "__and__", "or_else", "__or__",
                            "__eq__", "__repr__", "inverse"}
      [] tag = "Nothing" -> LeftAttrs \cup {"__repr__"}
      [] OTHER -> {}

\* self.name(func, *args, **kwargs) for the chaining methods.
Method(self, name, func, args, kwargs, nid) ==
    IF name \notin Attrs(self.tag) THEN Raise("AttributeError", PyNone, <<>>, 0)
    ELSE IF IsRightish(self) THEN
        CASE name \in {"bind", "__rshift__"} -> Right_bind(self, func, args, kwargs)
          [] name = "rbind" -> Right_rbind(self, func, args, kwargs)
          [] name \in {"and_then", "__and__"} ->
                Right_and_then(self, func, args, kwargs, nid)
          [] OTHER -> Right_or_else(self, func, args, kwargs)
    ELSE
        CASE name \in {"or_else", "__or__"} ->
                Wrong_or_else(self, func, args, kwargs, nid)
          [] OTHER -> Wrong_and_then(self, func, args, kwargs)

\* self >> func, self & func, self | func: a class without the special
\* method makes the operator a TypeError (a function has no reflected one).
BinOp(self, name, func, nid) ==
    IF name \notin Attrs(self.tag) THEN Raise("TypeError", PyNone, <<>>, 0)
    ELSE Method(self, name, func, <<>>, <<>>, nid)

\* self.value and self.error: properties; Nothing has neither.
GetValue(self) ==
    IF "value" \notin Attrs(self.tag) THEN Raise("AttributeError", PyNone, <<>>, 0)
    ELSE IF IsRightish(self) THEN Right_value(self) ELSE Wrong_value(self)

GetError(self) ==
    IF "error" \notin Attrs(self.tag) THEN Raise("AttributeError", PyNone, <<>>, 0)
    ELSE IF IsRightish(self) THEN Right_error(self) ELSE Wrong_error(self)

ValueOr(self, other_value) ==
    IF IsRightish(self) THEN Right_value_or(self, other_value)
    ELSE Left_value_or(self, other_value)

Inverse(self, nid) ==
    IF "inverse" \notin Attrs(self.tag) THEN Raise("AttributeError", PyNone, <<>>, 0)
    ELSE IF IsRightish(self) THEN Right_inverse(self, nid) ELSE Wrong_inverse(self, nid)

\* A variant of the right-hand __iter__ that yields nothing.
Right_iter_empty(self) == <<>>

\* __iter__ of Some and Right: iter((self.value,)), a new iterator each
\* time; what it will yield.
Right_iter(self) == <<Payload(self)>>
\* __iter__ of Nothing and Wrong: return _EMPTY_ITER, the module's one
\* iterator; what it will yield is what is left in it.
Left_iter(self, shared) == shared

\* list(self): iter(self) is drained into a list.  rest is what is left in
\* the shared iterator afterwards.
Iterate(self, shared) ==
    IF IsRightish(self)
    THEN [out |-> Ret(PyList(Right_iter(self), 0), <<>>, 0), rest |-> shared]
    ELSE [out |-> Ret(PyList(Left_iter(self, shared), 0), <<>>, 0),
          rest |-> <<>>]

\* bool(self), as in "if result:".
Truth(self) ==
    CASE py_bool(self) = "T" -> Ret(PyBool(TRUE), <<>>, 0)
      [] py_bool(self) = "F" -> Ret(PyBool(FALSE), <<>>, 0)
      [] OTHER -> Raise("TypeError", PyNone, <<>>, 0)

(***************************************************************************)
(* The factories.                                                          *)
(***************************************************************************)
\* Predicates handed to of(): "default" is predicate=None.
Preds == {"default", "bool", "isalpha", "never"}

\* A variant of the default predicate that tests for truth.
is_truthy(value) == py_bool(value)

is_not_none(value) == IF value # PyNone THEN "T" ELSE "F"

\* predicate(value): "T", "F" or the exception it raises.
Predicate(predicate, value) ==
    CASE predicate = "default" -> is_not_none(value)
      [] predicate = "bool" -> py_bool(value)
      [] predicate = "isalpha" ->
            IF value.tag # "str" THEN "TypeError"
            ELSE IF value.n > 0 THEN "T" ELSE "F"
      [] OTHER -> "F"

\* Option.of: cls.Some(value) if predicate(value) else cls.Nothing.
Option_of(value, predicate, nid) ==
    LET p == Predicate(predicate, value)
    IN  CASE p = "T" -> Ret(Some(value, nid), <<>>, 1)
          [] p = "F" -> Ret(Nothing, <<>>, 0)
          [] OTHER -> Raise(p, PyNone, <<>>, 0)

\* A variant of first that reads the whole input before it looks at it.
Option_first_eager(seq, nid) ==
    IF seq.n \in 1..Len(seq.items) + 1
    THEN Pulled(Raise("Exception", PyNone, <<>>, 0), seq.n)
    ELSE IF seq.items = <<>> THEN Pulled(Ret(Nothing, <<>>, 0), 1)
    ELSE Pulled(Ret(Some(seq.items[1], nid), <<>>, 1), Len(seq.items) + 1)

\* Option.first: for x in seq: return cls.Some(x); return cls.Nothing.
Option_first(seq, nid) ==
    IF seq.n = 1 THEN Pulled(Raise("Exception", PyNone, <<>>, 0), 1)
    ELSE IF seq.items = <<>> THEN Pulled(Ret(Nothing, <<>>, 0), 1)
    ELSE Pulled(Ret(Some(seq.items[1], nid), <<>>, 1), 1)

\* x.value for an element x of the input of sequence.
ElementValue(x) ==
    CASE IsRightish(x) -> Right_value(x)
      [] x.tag = "Wrong" -> Wrong_value(x)
      [] OTHER -> Raise("AttributeError", PyNone, <<>>, 0)

\* The loop of Option.sequence, about to make pull number i.
RECURSIVE sequence_loop(_, _, _, _)
sequence_loop(seq, i, collected, nid) ==
    IF seq.n = i THEN Pulled(Raise("Exception", PyNone, <<>>, 0), i)
    ELSE IF i > Len(seq.items)
    THEN Pulled(Ret(Some(PyList(collected, nid), nid + 1), <<>>, 2), i)
    ELSE IF seq.items[i] = Nothing THEN Pulled(Ret(Nothing, <<>>, 0), i)
    ELSE IF ElementValue(seq.items[i]).kind = "raise"
    THEN Pulled(ElementValue(seq.items[i]), i)
    ELSE sequence_loop(seq, i + 1,
                       Append(collected, ElementValue(seq.items[i]).val), nid)

\* A variant of sequence that reads the whole input before it loops.
Option_sequence_eager(seq, nid) ==
    IF seq.n \in 1..Len(seq.items) + 1
    THEN Pulled(Raise("Exception", PyNone, <<>>, 0), seq.n)
    ELSE Pulled(sequence_loop(PyIter(seq.items, 0), 1, <<>>, nid),
                Len(seq.items) + 1)

\* Option.sequence: collected = []; for x in seq: ...; return Some(collected).
Option_sequence(seq, nid) == sequence_loop(seq, 1, <<>>, nid)

\* _is_not_nothing: value is not Nothing.
is_not_nothing(value) == value # Nothing

\* filter(function, seq), Python 2: reads all of seq and returns the list
\* of the elements the function accepts.  The outcome carries the kept
\* elements as a list with the identity nid.
RECURSIVE Kept(_)
Kept(items) ==
    IF items = <<>> THEN <<>>
    ELSE IF is_not_nothing(items[1]) THEN <<items[1]>> \o Kept(Tail(items))
    ELSE Kept(Tail(items))

py_filter(seq, nid) ==
    IF seq.n \in 1..Len(seq.items) + 1
    THEN Pulled(Raise("Exception", PyNone, <<>>, 0), seq.n)
    ELSE Pulled(Ret(PyList(Kept(seq.items), nid), <<>>, 1), Len(seq.items) + 1)

\* A variant of pack that forgets to filter.
Option_pack_unfiltered(seq, nid) == Option_sequence(seq, nid)

\* Option.pack: cls.sequence(filter(_is_not_nothing, seq)).
Option_pack(seq, nid) ==
    LET f == py_filter(seq, nid)
    IN  IF f.kind = "raise" THEN f
        ELSE LET r == sequence_loop(PyIter(f.val.items, 0), 1, <<>>, nid + f.used)
             IN  [r EXCEPT !.pulls = f.pulls, !.used = r.used + f.used]

\* Either.of: cls.Right(value) if predicate(value) else cls.Wrong(otherwise).
Either_of(value, otherwise, predicate, nid) ==
    LET p == Predicate(predicate, value)
    IN  CASE p = "T" -> Ret(Right(value, nid), <<>>, 1)
          [] p = "F" -> Ret(Wrong(otherwise, nid), <<>>, 1)
          [] OTHER -> Raise(p, PyNone, <<>>, 0)

\* except exceptions as ex: the raised kind is an instance of one of them.
Caught(kind, exceptions) ==
    \E i \in 1..Len(exceptions.items) :
        IsSubclass(kind, ClassName(exceptions.items[i]))

\* A variant of the adapter that catches whatever is raised.
Either_wrapping_catches_all(exceptions, func, args, kwargs, nid) ==
    LET r == Invoke(func, args, kwargs)
    IN  IF r.kind = "ret" THEN Ret(Right(r.val, nid), r.calls, 1)
        ELSE Ret(Wrong(PyExc(r.exc, r.val), nid), r.calls, 1)

\* Either.wrapping(exceptions, func)(*args, **kwargs):
\* try: return cls.Right(func(*args, **kwargs))
\* except exceptions as ex: return cls.Wrong(ex).
Either_wrapping(exceptions, func, args, kwargs, nid) ==
    LET r == Invoke(func, args, kwargs)
    IN  IF r.kind = "ret" THEN Ret(Right(r.val, nid), r.calls, 1)
        ELSE IF Caught(r.exc, exceptions)
        THEN Ret(Wrong(PyExc(r.exc, r.val), nid), r.calls, 1)
        ELSE r

\* errors = [x.error for x in seq if not x], with items still to be read.
RECURSIVE collect_errors(_, _, _)
collect_errors(items, errors, nid) ==
    IF items = <<>> THEN Ret(PyList(errors, nid), <<>>, 1)
    ELSE CASE py_bool(items[1]) = "TypeError" -> Raise("TypeError", PyNone, <<>>, 0)
           [] py_bool(items[1]) = "T" -> collect_errors(Tail(items), errors, nid)
           [] OTHER ->
                IF GetError(items[1]).kind = "raise" THEN GetError(items[1])
                ELSE collect_errors(Tail(items),
                                    Append(errors, GetError(items[1]).val), nid)

\* [x.value for x in seq], with items still to be read.
RECURSIVE collect_values(_, _, _)
collect_values(items, values, nid) ==
    IF items = <<>> THEN Ret(PyList(values, nid), <<>>, 1)
    ELSE IF GetValue(items[1]).kind = "raise" THEN GetValue(items[1])
    ELSE collect_values(Tail(items), Append(values, GetValue(items[1]).val), nid)

\* What a second "for x in seq" gets: a list yields its elements again, an
\* iterator that has been read to its end yields nothing more.
SecondPass(seq) == IF seq.tag = "list" THEN seq.items ELSE <<>>

\* Either.collect: the errors of the falsy elements; Wrong(errors) if there
\* are any, else Right of the values read in a second pass over seq.
Either_collect(seq, nid) ==
    LET e == collect_errors(seq.items, <<>>, nid)
        v == collect_values(SecondPass(seq), <<>>, nid + 1)
    IN  IF e.kind = "raise" THEN e
        ELSE IF py_bool(e.val) = "T" THEN Ret(Wrong(e.val, nid + 1), <<>>, 2)
        ELSE IF v.kind = "raise" THEN [v EXCEPT !.used = 1]
        ELSE Ret(Right(v.val, nid + 2), <<>>, 3)

(***************************************************************************)
(* The client.                                                             *)
(***************************************************************************)
VARIABLES
    cur,     \* the value the chain has reached: the receiver of the next call
    origin,  \* the value the chain started from
    chain,   \* the names of the operations applied since, in order
    last,    \* the last operation: receiver, arguments and outcome
    ncalls,  \* invocations of client functions since the chain started
    nextId,  \* the identity of the next object built
    EMPTY_ITER  \* what the module-level iterator _EMPTY_ITER has left to yield

vars == <<cur, origin, chain, last, ncalls, nextId, EMPTY_ITER>>

\* Payloads, defaults and of() inputs: None, falsy and truthy values, and
\* a container.
Vals == {PyNone, PyInt(0), PyInt(1), PyBool(FALSE), PyStr(0),
         PyList(<<>>, -1), Nothing}
\* Extra positional arguments and the keyword arguments (by value).
ExtraVals == {PyStr(1)}
\* The elements of the inputs of Option.sequence, built by the client.
Options == {Some(PyInt(1), -2), Some(PyNone, -3), Nothing}
\* The elements of the inputs of Either.collect.
Eithers == {Right(PyStr(1), -2), Right(PyStr(0), -3), Right(PyInt(0), -4),
            Wrong(PyStr(1), -5), Wrong(PyInt(0), -6)}
\* The functions handed to Either.wrapping, and the exception kinds.
WrapFuncs == {"first_arg", "boom", "io_boom"}
KindTuples == {PyTuple(<<>>), PyTuple(<<PyClass("IOError")>>),
               PyTuple(<<PyClass("ValueError"), PyClass("IOError")>>),
               PyTuple(<<PyClass("ValueError")>>),
               PyTuple(<<PyClass("Exception")>>)}
\* The operands of == and !=: containers of every class over payloads that
\* are equal by value without being the same object, each built twice.
EqPayloads == {PyInt(0), PyBool(FALSE), PyInt(1), PyList(<<>>, -1),
               PyList(<<>>, -13)}
Operands(ids) ==
    {Nothing} \cup {Obj(t, 0, <<p>>, i) :
                        t \in {"Some", "Right", "Wrong"}, p \in EqPayloads,
                        i \in ids}
\* The containers iterated over.
IterTargets ==
    {Nothing} \cup {Obj(t, 0, <<p>>, i) :
                        t \in {"Some", "Right", "Wrong"},
                        p \in {PyNone, PyStr(1), PyList(<<>>, -1)},
                        i \in {-14, -15}}
RECURSIVE SeqsOver(_, _)
SeqsOver(S, k) ==
    IF k = 0 THEN {<<>>}
    ELSE SeqsOver(S, k - 1) \cup {Append(t, v) : t \in {u \in SeqsOver(S, k - 1) : Len(u) = k - 1},
                                                  v \in S}
Args == SeqsOver(ExtraVals, MaxExtra)
Kwargs == {<<>>, <<PyStr(1)>>}
\* The inputs over S: every sequence up to MaxSeq long, failing at no pull
\* or at any one pull up to the one after the last element.
Inputs(S) ==
    {PyIter(items, fails) : items \in SeqsOver(S, MaxSeq), fails \in 0..MaxSeq + 1}

Op(op, self, func, args, kwargs, out) ==
    [op |-> op, self |-> self, func |-> func, args |-> args,
     kwargs |-> kwargs, out |-> out, nid |-> nextId]

Init ==
    /\ cur = Nothing
    /\ origin = Nothing
    /\ chain = <<>>
    /\ last = [op |-> "import", self |-> PyNone, func |-> "", args |-> <<>>,
               kwargs |-> <<>>, out |-> Ret(Nothing, <<>>, 0), nid |-> 1]
    /\ ncalls = 0
    /\ nextId = 1
    /\ EMPTY_ITER = <<>>

\* Nothing has been called yet.
AtImport == last.op = "import"

\* A chain starts from the value a constructor or a factory returned, right
\* after the import.
StartWith(op, func, args, kwargs, out) ==
    /\ AtImport
    /\ last' = [op |-> op, self |-> PyNone, func |-> func, args |-> args,
                kwargs |-> kwargs, out |-> out, nid |-> 1]
    /\ cur' = IF out.kind = "ret" THEN out.val ELSE Nothing
    /\ origin' = cur'
    /\ chain' = <<>>
    /\ ncalls' = 0
    /\ nextId' = 1 + out.used
    /\ UNCHANGED EMPTY_ITER

Start(op, func, args, out) == StartWith(op, func, args, <<>>, out)

NewSome ==
    AtImport /\ \E v \in Vals :
        Start("Some", "", <<v>>, Ret(Some(v, 1), <<>>, 1))
NewRight ==
    AtImport /\ \E v \in Vals :
        Start("Right", "", <<v>>, Ret(Right(v, 1), <<>>, 1))
NewWrong ==
    AtImport /\ \E v \in Vals :
        Start("Wrong", "", <<v>>, Ret(Wrong(v, 1), <<>>, 1))
UseNothing == Start("Nothing", "", <<>>, Ret(Nothing, <<>>, 0))
OptionOf ==
    AtImport /\ \E v \in Vals, p \in Preds :
        Start("Option.of", p, <<v>>, Option_of(v, p, 1))
EitherOf ==
    AtImport /\ \E v \in Vals, o \in ExtraVals, p \in Preds :
        Start("Either.of", p, <<v, o>>, Either_of(v, o, p, 1))
OptionFirst ==
    AtImport /\ \E s \in Inputs({PyNone, PyInt(0)}) :
        Start("Option.first", "", <<s>>, Option_first(s, 1))
OptionSequence ==
    AtImport /\ \E s \in Inputs(Options) :
        Start("Option.sequence", "", <<s>>, Option_sequence(s, 1))
OptionPack ==
    AtImport /\ \E s \in Inputs(Options) :
        Start("Option.pack", "", <<s>>, Option_pack(s, 1))
\* The input of collect is a list, or an iterator that can be read once.
EitherCollect ==
    AtImport /\ \E items \in SeqsOver(Eithers, MaxSeq) :
        \E s \in {PyList(items, -9), PyIter(items, 0)} :
            Start("Either.collect", "", <<s>>, Either_collect(s, 1))
\* The adapter is built and called at once: last.args holds the kinds, then
\* the positional arguments of the call.
EitherWrapping ==
    AtImport /\ \E ks \in KindTuples, f \in WrapFuncs, v \in {PyNone, PyInt(1)},
       a \in Args, k \in Kwargs :
        StartWith("Either.wrapping", f, <<ks, v>> \o a, k,
                  Either_wrapping(ks, f, <<v>> \o a, k, 1))

\* a == b and a != b on two values the client built; b may be a itself.
DoEq ==
    AtImport /\ \E a \in Operands({-11}), b \in Operands({-11, -12}) :
        Start("==", "", <<a, b>>, Ret(PyBool(py_eq(a, b)), <<>>, 0))
DoNe ==
    AtImport /\ \E a \in Operands({-11}), b \in Operands({-11, -12}) :
        Start("!=", "", <<a, b>>, Ret(PyBool(py_ne(a, b)), <<>>, 0))

\* One more call on the value the chain has reached.  The chain goes on
\* from what the call returns as long as that is a container; an exception
\* ends it.
Step(op, func, args, kwargs, out) ==
    /\ Len(chain) < MaxSteps
    /\ last.out.kind = "ret"
    /\ IsContainer(cur)
    /\ last' = Op(op, cur, func, args, kwargs, out)
    /\ cur' = IF out.kind = "ret" THEN out.val ELSE cur
    /\ chain' = Append(chain, op)
    /\ ncalls' = ncalls + Len(out.calls)
    /\ nextId' = nextId + out.used
    /\ UNCHANGED <<origin, EMPTY_ITER>>

Bind ==
    \E f \in Funcs \cup MethodNames, a \in Args, k \in Kwargs :
        Step("bind", f, a, k, Method(cur, "bind", f, a, k, nextId))
AndThen ==
    \E f \in Funcs, a \in Args, k \in Kwargs :
        Step("and_then", f, a, k, Method(cur, "and_then", f, a, k, nextId))
OrElse ==
    \E f \in Funcs, a \in Args, k \in Kwargs :
        Step("or_else", f, a, k, Method(cur, "or_else", f, a, k, nextId))
Rshift ==
    \E f \in Funcs :
        Step(">>", f, <<>>, <<>>, BinOp(cur, "__rshift__", f, nextId))
And ==
    \E f \in Funcs :
        Step("&", f, <<>>, <<>>, BinOp(cur, "__and__", f, nextId))
Or ==
    \E f \in Funcs :
        Step("|", f, <<>>, <<>>, BinOp(cur, "__or__", f, nextId))
DoInverse == Step("inverse", "", <<>>, <<>>, Inverse(cur, nextId))
ReadValue == Step("value", "", <<>>, <<>>, GetValue(cur))
ReadError == Step("error", "", <<>>, <<>>, GetError(cur))
DoValueOr ==
    \E d \in Vals : Step("value_or", "", <<d>>, <<>>, ValueOr(cur, d))
DoBool == Step("bool", "", <<>>, <<>>, Truth(cur))
\* list(c), right after the import or after another list(...): over the
\* same container again or over another one.  cur is the list obtained.
DoIter ==
    /\ last.op \in {"import", "iter"}
    /\ Len(chain) < MaxSteps
    /\ \E c \in IterTargets :
            /\ last' = Op("iter", c, "", <<>>, <<>>, Iterate(c, EMPTY_ITER).out)
            /\ EMPTY_ITER' = Iterate(c, EMPTY_ITER).rest
            /\ cur' = Iterate(c, EMPTY_ITER).out.val
    /\ chain' = Append(chain, "iter")
    /\ UNCHANGED <<origin, ncalls, nextId>>

Next ==
    \/ NewSome \/ NewRight \/ NewWrong \/ UseNothing \/ OptionOf \/ EitherOf
    \/ OptionFirst \/ OptionSequence \/ OptionPack \/ EitherCollect
    \/ EitherWrapping \/ DoEq \/ DoNe
    \/ Bind \/ AndThen \/ OrElse \/ Rshift \/ And \/ Or
    \/ DoInverse \/ ReadValue \/ ReadError \/ DoValueOr \/ DoBool \/ DoIter

Spec == Init /\ [][Next]_vars

(***************************************************************************)
(* Properties.                                                             *)
(***************************************************************************)
BindOps == {"bind", "and_then", ">>", "&"}
RecoverOps == {"or_else", "|"}
ChainOnly(ops) == \A i \in 1..Len(chain) : chain[i] \in ops

\* What the client function of the last call returns when it is handed
\* first, then the extra arguments of the call.
Expected(first) == FuncResult(last.func, <<first>> \o last.args, last.kwargs)
\* The last call invoked its function exactly once, as func(first, *extra).
CalledOnceWith(first) ==
    last.out.calls = <<Call(last.func, <<first>> \o last.args, last.kwargs)>>
\* The last call let the exception of its function through.
Propagated(first) ==
    /\ last.out.kind = "raise"
    /\ last.out.exc = Expected(first).exc
    /\ last.out.val = Expected(first).val

\* C1: a chain of bind / and_then / >> / & calls that starts from a Wrong
\* returns that very Wrong object at every step and invokes no function;
\* a chain of chaining calls that starts from a Wrong stands at a
\* contentful value only if it contains an or_else (or |) call.
C1_WrongChainShortCircuits ==
    /\ (origin.tag = "Wrong" /\ chain # <<>> /\ ChainOnly(BindOps)) =>
            /\ last.out.kind = "ret"
            /\ last.out.val = origin
            /\ cur = origin
            /\ ncalls = 0
    /\ (origin.tag = "Wrong" /\ ChainOnly(BindOps \cup RecoverOps)
            /\ IsRightish(cur)) =>
            \E i \in 1..Len(chain) : chain[i] \in RecoverOps

C1_Witness ==
    /\ origin.tag = "Wrong"
    /\ chain = <<"bind", "&">>
    /\ last.func = "boom"
    /\ cur = origin

\* C2: bind, and_then, >> and & on Nothing return Nothing itself and do
\* not invoke the function.
C2_NothingShortCircuits ==
    (last.self = Nothing /\ last.op \in BindOps) =>
        /\ last.out.kind = "ret"
        /\ last.out.val = Nothing
        /\ last.out.calls = <<>>

\* C3: on Some(v) or Right(v), bind(f, *extra) and >> call f once as
\* f(v, *extra) and return (or raise) exactly what f does; and_then and &
\* make the same call and return the receiver's variant wrapping the
\* result, whatever it is.
C3_BindAndThenOnContentful ==
    (IsRightish(last.self) /\ last.op \in BindOps /\ last.func \in Funcs) =>
        LET v == Payload(last.self)
            r == Expected(v)
        IN  /\ CalledOnceWith(v)
            /\ r.kind = "raise" => Propagated(v)
            /\ (r.kind = "ret" /\ last.op \in {"bind", ">>"}) =>
                    last.out.kind = "ret" /\ last.out.val = r.val
            /\ (r.kind = "ret" /\ last.op \in {"and_then", "&"}) =>
                    /\ last.out.kind = "ret"
                    /\ last.out.val.tag = last.self.tag
                    /\ Payload(last.out.val) = r.val

C3_Witness ==
    /\ last.op = "and_then"
    /\ last.self.tag = "Some"
    /\ last.func = "last_arg"
    /\ last.args # <<>>
    /\ last.out.kind = "ret"
    /\ Payload(last.out.val) = last.args[Len(last.args)]

\* C4: Wrong(e).or_else(f, *extra) and Wrong(e) | f call f once as
\* f(e, *extra) and return a Right wrapping the result: not a Wrong, not
\* the raw result.
C4_WrongOrElseRecovers ==
    (last.self.tag = "Wrong" /\ last.op \in RecoverOps) =>
        LET e == Payload(last.self)
            r == Expected(e)
        IN  /\ CalledOnceWith(e)
            /\ r.kind = "raise" => Propagated(e)
            /\ r.kind = "ret" =>
                    /\ last.out.kind = "ret"
                    /\ last.out.val.tag = "Right"
                    /\ Payload(last.out.val) = r.val

C4_Witness ==
    /\ last.op = "or_else"
    /\ last.self.tag = "Wrong"
    /\ last.func = "first_arg"
    /\ last.args # <<>>
    /\ last.out.kind = "ret"
    /\ last.out.val.tag = "Right"
    /\ Payload(last.out.val) = Payload(last.self)

\* C5: Right(x).or_else(f, ...) and Right(x) | f return the receiver
\* itself and do not invoke f.
C5_RightOrElseReturnsSelf ==
    (last.self.tag = "Right" /\ last.op \in RecoverOps) =>
        /\ last.out.kind = "ret"
        /\ last.out.val = last.self
        /\ last.out.calls = <<>>
        /\ cur = last.self

C5_Witness ==
    /\ last.op = "or_else"
    /\ last.self.tag = "Right"
    /\ last.func = "boom"
    /\ last.args # <<>>
    /\ last.kwargs # <<>>
    /\ last.out.val = last.self

\* C6: the truth value depends on the variant alone: bool() of a Some or
\* a Right is True whatever the payload, bool() of Nothing or of a Wrong is
\* False.
C6_TruthIsByVariant ==
    last.op = "bool" =>
        /\ last.out.kind = "ret"
        /\ last.out.val = PyBool(IsRightish(last.self))

\* The predicate of the last of() call holds of v / rejects v; the default
\* is spelled out as "is not None".
Holds(v) ==
    IF last.func = "default" THEN v # PyNone ELSE Predicate(last.func, v) = "T"
Rejects(v) ==
    IF last.func = "default" THEN v = PyNone ELSE Predicate(last.func, v) = "F"

\* C7: Option.of(v, p) is a Some wrapping v itself if p(v) holds and
\* Nothing if it does not; Either.of(v, otherwise, p) is a Right wrapping v
\* itself if p(v) holds and a Wrong wrapping otherwise if it does not.  With
\* the default predicate every value but None is wrapped as contentful.
C7_OfFollowsPredicate ==
    /\ last.op = "Option.of" =>
        /\ Holds(last.args[1]) =>
                /\ last.out.kind = "ret"
                /\ last.out.val.tag = "Some"
                /\ Payload(last.out.val) = last.args[1]
        /\ Rejects(last.args[1]) =>
                last.out.kind = "ret" /\ last.out.val = Nothing
    /\ last.op = "Either.of" =>
        /\ Holds(last.args[1]) =>
                /\ last.out.kind = "ret"
                /\ last.out.val.tag = "Right"
                /\ Payload(last.out.val) = last.args[1]
        /\ Rejects(last.args[1]) =>
                /\ last.out.kind = "ret"
                /\ last.out.val.tag = "Wrong"
                /\ Payload(last.out.val) = last.args[2]

C7_Witness ==
    /\ last.op = "Either.of"
    /\ last.func = "default"
    /\ last.args[1] = PyList(<<>>, -1)
    /\ last.out.val.tag = "Right"
    /\ Payload(last.out.val) = PyList(<<>>, -1)

\* C8: there is one empty Option: Option.of with a rejecting predicate,
\* Option.first on an input without elements, Option.sequence on an input
\* containing Nothing, and bind / and_then on Nothing each return the
\* Nothing object itself, and no other object is an empty Option.
C8_NothingIsTheOnlyEmptyOption ==
    /\ (last.op = "Option.of" /\ Rejects(last.args[1])) =>
            last.out.kind = "ret" /\ last.out.val = Nothing
    /\ (last.op = "Option.first" /\ last.args[1].items = <<>>
            /\ last.args[1].n # 1) =>
            last.out.kind = "ret" /\ last.out.val = Nothing
    /\ (last.op = "Option.sequence" /\ last.out.kind = "ret"
            /\ \E i \in 1..Len(last.args[1].items) :
                    last.args[1].items[i] = Nothing) =>
            last.out.val = Nothing
    /\ (last.self = Nothing /\ last.op \in {"bind", "and_then"}) =>
            last.out.kind = "ret" /\ last.out.val = Nothing
    /\ last.out.val.tag = "Nothing" => last.out.val = Nothing
    /\ cur.tag = "Nothing" => cur = Nothing

\* C9: .value of a Some or a Right and .error of a Wrong return the
\* payload; .value of Nothing or of a Wrong and .error of a Some or a Right
\* raise and return nothing.
C9_AccessorsFailLoudly ==
    /\ (last.op = "value" /\ IsRightish(last.self)) =>
            last.out.kind = "ret" /\ last.out.val = Payload(last.self)
    /\ (last.op = "error" /\ last.self.tag = "Wrong") =>
            last.out.kind = "ret" /\ last.out.val = Payload(last.self)
    /\ (last.op = "value" /\ IsLeftish(last.self)) => last.out.kind = "raise"
    /\ (last.op = "error" /\ IsRightish(last.self)) => last.out.kind = "raise"

C9_Witness ==
    /\ last.op = "value"
    /\ last.self.tag = "Wrong"
    /\ Payload(last.self) = PyNone
    /\ last.out.kind = "raise"

\* C10: value_or(default) always returns: the payload on a Some or a
\* Right, the default itself on Nothing or a Wrong.
C10_ValueOrNeverFails ==
    last.op = "value_or" =>
        /\ last.out.kind = "ret"
        /\ IsRightish(last.self) => last.out.val = Payload(last.self)
        /\ IsLeftish(last.self) => last.out.val = last.args[1]

C10_Witness ==
    /\ last.op = "value_or"
    /\ last.self = Nothing
    /\ last.args[1] = PyList(<<>>, -1)
    /\ last.out.val = PyList(<<>>, -1)

\* The input of the last factory call: its elements, and the pull that
\* raises (0: none).
InputItems == last.args[1].items
InputFails == last.args[1].n
\* No pull up to pull number k raises.
NoFailUpTo(k) == InputFails = 0 \/ InputFails > k
\* The position of the first Nothing among the elements, 0 if there is none.
FirstNothing ==
    IF \E i \in 1..Len(InputItems) : InputItems[i] = Nothing
    THEN CHOOSE i \in 1..Len(InputItems) :
            /\ InputItems[i] = Nothing
            /\ \A j \in 1..(i - 1) : InputItems[j] # Nothing
    ELSE 0
IsSome(x) == x.tag = "Some"
Payloads(items) == [i \in 1..Len(items) |-> Payload(items[i])]
\* The last call returned a container of class tag wrapping a list of
\* exactly these elements.
ReturnedListIn(tag, elements) ==
    /\ last.out.kind = "ret"
    /\ last.out.val.tag = tag
    /\ Payload(last.out.val).tag = "list"
    /\ Payload(last.out.val).items = elements

\* C11: Option.sequence returns Some of the list of the payloads, in input
\* order, if every element is a Some (Some([]) for an empty input); it
\* returns Nothing at the first Nothing, having pulled nothing after it, so
\* that an input raising on the next pull does not raise.
C11_SequenceAllOrNothing ==
    last.op = "Option.sequence" =>
        /\ (FirstNothing = 0 /\ NoFailUpTo(Len(InputItems) + 1)) =>
                ReturnedListIn("Some", Payloads(InputItems))
        /\ (FirstNothing > 0 /\ NoFailUpTo(FirstNothing)) =>
                /\ last.out.kind = "ret"
                /\ last.out.val = Nothing
                /\ last.out.pulls = FirstNothing

C11_Witness ==
    /\ last.op = "Option.sequence"
    /\ Len(InputItems) = 2
    /\ IsSome(InputItems[1])
    /\ InputItems[2] = Nothing
    /\ InputFails = 3
    /\ last.out.kind = "ret"
    /\ last.out.val = Nothing

\* C13: Option.first returns Some of the first element its input yields,
\* whatever that element is, and Nothing if the input yields none; it makes
\* one pull at most, so an input raising on its second pull does not raise.
C13_FirstIsLazy ==
    last.op = "Option.first" =>
        /\ last.out.pulls <= 1
        /\ (InputItems # <<>> /\ InputFails # 1) =>
                /\ last.out.kind = "ret"
                /\ last.out.val.tag = "Some"
                /\ Payload(last.out.val) = InputItems[1]
        /\ (InputItems = <<>> /\ InputFails # 1) =>
                last.out.kind = "ret" /\ last.out.val = Nothing

C13_Witness ==
    /\ last.op = "Option.first"
    /\ InputItems # <<>>
    /\ InputItems[1] = PyNone
    /\ InputFails = 2
    /\ last.out.kind = "ret"
    /\ last.out.val.tag = "Some"
    /\ Payload(last.out.val) = PyNone

\* C14: Option.pack over an input that does not raise always returns a
\* Some: of the list of the payloads of the Some elements, in input order,
\* every Nothing left out and a Some of None kept; Some([]) for an empty
\* input.
C14_PackDropsNothing ==
    (last.op = "Option.pack" /\ NoFailUpTo(Len(InputItems) + 1)) =>
        ReturnedListIn("Some", Payloads(SelectSeq(InputItems, IsSome)))

C14_Witness ==
    /\ last.op = "Option.pack"
    /\ Len(InputItems) = 2
    /\ InputItems[1] = Nothing
    /\ IsSome(InputItems[2])
    /\ Payload(InputItems[2]) = PyNone
    /\ ReturnedListIn("Some", <<PyNone>>)

IsWrong(x) == x.tag = "Wrong"

\* C12: Either.collect over a list or over an iterator returns Right of the
\* list of all the values, in input order, if every element is a Right, and
\* otherwise Wrong of the list of the errors of all the Wrong elements, in
\* input order.
C12_CollectGathersAll ==
    last.op = "Either.collect" =>
        IF \A i \in 1..Len(InputItems) : InputItems[i].tag = "Right"
        THEN ReturnedListIn("Right", Payloads(InputItems))
        ELSE ReturnedListIn("Wrong", Payloads(SelectSeq(InputItems, IsWrong)))

\* C15: the adapter Either.wrapping(kinds, func) calls func once with the
\* arguments it was called with; it returns Right of the result if func
\* returns, Wrong of the exception if func raises one of the kinds, and
\* lets any other exception through as it is.
C15_WrappingAdaptsExceptions ==
    last.op = "Either.wrapping" =>
        LET kinds == last.args[1]
            r == FuncResult(last.func, Tail(last.args), last.kwargs)
            ofKinds == \E i \in 1..Len(kinds.items) :
                            \/ ClassName(kinds.items[i]) = r.exc
                            \/ ClassName(kinds.items[i]) = "Exception"
        IN  /\ last.out.calls = <<Call(last.func, Tail(last.args), last.kwargs)>>
            /\ r.kind = "ret" =>
                    /\ last.out.kind = "ret"
                    /\ last.out.val.tag = "Right"
                    /\ Payload(last.out.val) = r.val
            /\ (r.kind = "raise" /\ ofKinds) =>
                    /\ last.out.kind = "ret"
                    /\ last.out.val.tag = "Wrong"
                    /\ Payload(last.out.val) = PyExc(r.exc, r.val)
            /\ (r.kind = "raise" /\ ~ofKinds) =>
                    /\ last.out.kind = "raise"
                    /\ last.out.exc = r.exc
                    /\ last.out.val = r.val

C15_Witness ==
    /\ last.op = "Either.wrapping"
    /\ last.func = "io_boom"
    /\ last.args[1] = PyTuple(<<PyClass("ValueError"), PyClass("IOError")>>)
    /\ last.kwargs # <<>>
    /\ last.out.kind = "ret"
    /\ last.out.val.tag = "Wrong"
    /\ Payload(last.out.val).tag = "IOError"

\* C16: inverse() flips the variant and keeps the payload, whatever the
\* payload is: Right(v).inverse() == Wrong(v), Wrong(e).inverse() == Right(e),
\* the receiver is what it was, and two inversions in a row give a value
\* equal to the original.
Flipped(self) ==
    IF self.tag = "Right" THEN Wrong(Payload(self), -20)
    ELSE Right(Payload(self), -20)

C16_InverseFlipsVariant ==
    /\ (last.op = "inverse" /\ last.self.tag \in {"Right", "Wrong"}) =>
            /\ last.out.kind = "ret"
            /\ py_eq(last.out.val, Flipped(last.self))
            /\ py_eq(Flipped(last.self), last.out.val)
            /\ last.out.val.tag = Flipped(last.self).tag
            /\ Payload(last.out.val) = Payload(last.self)
            /\ Len(chain) = 1 => last.self = origin
    /\ chain = <<"inverse", "inverse">> =>
            /\ py_eq(cur, origin)
            /\ py_eq(origin, cur)
            /\ cur.tag = origin.tag

C16_Witness ==
    /\ chain = <<"inverse", "inverse">>
    /\ origin.tag = "Wrong"
    /\ Payload(origin).tag = "list"
    /\ last.out.kind = "ret"
    /\ cur # origin

\* C17: == is by variant and payload value, not identity: a == b is true
\* exactly when a and b are of the same variant class and their payloads are
\* equal (Nothing equals only Nothing); and Some(a) != Some(b) is true exactly
\* when a and b are unequal.
SameVariantEqualPayloads(a, b) ==
    /\ a.tag = b.tag
    /\ a.tag # "Nothing" => py_eq(Payload(a), Payload(b))

C17_EqualityIsByValue ==
    /\ last.op = "==" =>
            (last.out.val = PyBool(TRUE)
                <=> SameVariantEqualPayloads(last.args[1], last.args[2]))
    /\ (last.op = "!=" /\ last.args[1].tag = "Some" /\ last.args[2].tag = "Some") =>
            (last.out.val = PyBool(TRUE)
                <=> py_ne(Payload(last.args[1]), Payload(last.args[2])))

\* C18: iterating Some(v) or Right(v) yields exactly v and iterating Nothing
\* or Wrong(e) yields nothing, and this is so every time, whatever container
\* was iterated before, the same one or another failing one.
C18_IterationYieldsPayloadOnce ==
    last.op = "iter" =>
        /\ last.out.kind = "ret"
        /\ last.out.val.items =
                IF IsRightish(last.self) THEN <<Payload(last.self)>> ELSE <<>>
        /\ EMPTY_ITER = <<>>

C18_Witness ==
    /\ chain = <<"iter", "iter">>
    /\ last.op = "iter"
    /\ last.self.tag = "Wrong"
    /\ last.out.val.items = <<>>

====
